---------------------------- MODULE Spec2Model ----------------------------
(***************************************************************************)
(* A model of rt.c, a single-file ray caster: camera ray generation,       *)
(* ray/sphere intersection, ambient + diffuse + specular shading, the      *)
(* clamp to 8-bit channels, and the render driver in main().               *)
(*                                                                         *)
(* Numbers.  The program computes in C doubles.  The model computes in     *)
(* decimal fixed point: a double v is the integer v * One, products and    *)
(* quotients are rescaled and truncated toward zero, and sqrt is the       *)
(* integer square root.  Whenever the exact result of an operation is a    *)
(* multiple of 1/One the model's result is that exact result.  The         *)
(* specifications of the pure functions draw their inputs from sets on     *)
(* which every intermediate result is exact (integer coordinates, axis     *)
(* aligned unit vectors, perfect squares under every root), so that the    *)
(* model there computes what the code computes.  +infinity is the top      *)
(* element INFINITY of the order.  NaN is outside the model: the square    *)
(* root of a negative number has no value here, and no behaviour of any    *)
(* specification below takes one.  (In doubles the residue hyp_len^2 -     *)
(* projection^2 of line 109 can round below zero for a ray aimed at the    *)
(* center of a sphere along a direction that is not a coordinate axis.)    *)
(***************************************************************************)
EXTENDS Integers, Sequences, FiniteSets, TLC

\* ------------------------------------------------------------------------
\* Bounds of the model (not program constants)
\* ------------------------------------------------------------------------
\* image->width and image->height of the modelled render (1920 x 1080 in
\* the program, rt.c:183)
ImageWidth == 4
ImageHeight == 4
\* longest list of scene spheres
MaxSpheres == 2
\* argc ranges over 1..MaxArgc
MaxArgc == 3
\* SpecIntersect: sphere centers have coordinates in -MaxCoord..MaxCoord,
\* radii are 1..MaxRadius
MaxCoord == 4
MaxRadius == 5
\* SpecLight: light channels are k/4 for k in -MaxLight..MaxLight
MaxLight == 8
\* SpecCamera: focal distances 1..MaxFocal, centers in -MaxCenter..MaxCenter
MaxFocal == 3
MaxCenter == 1

\* ------------------------------------------------------------------------
\* double arithmetic
\* ------------------------------------------------------------------------
\* the fixed-point representation of 1.0
One == 2 * 1000

\* INFINITY of <math.h>: above every finite value the model computes
INFINITY == 2 ^ 30

isinf(v) == v = INFINITY \/ v = -INFINITY

Abs(a) == IF a < 0 THEN -a ELSE a

\* integer quotient truncated toward zero
TruncDiv(a, b) ==
    IF (a >= 0) = (b > 0) THEN Abs(a) \div Abs(b) ELSE -(Abs(a) \div Abs(b))

\* a * b on doubles
Mul(a, b) == TruncDiv(a * b, One)

\* a / b on doubles
Div(a, b) == TruncDiv(a * One, b)

RECURSIVE SqrtSearch(_, _, _)
SqrtSearch(n, lo, hi) ==
    IF lo = hi THEN lo
    ELSE LET mid == (lo + hi + 1) \div 2
         IN  IF mid * mid <= n THEN SqrtSearch(n, mid, hi)
             ELSE SqrtSearch(n, lo, mid - 1)

\* sqrt(a); for a negative argument (NaN in C) there is no value
Sqrt(a) ==
    IF a >= 0 THEN SqrtSearch(a * One, 0, 46340)
    ELSE CHOOSE nan \in {} : TRUE

\* pow(a, n) for a whole exponent n
RECURSIVE Pow(_, _)
Pow(a, n) == IF n = 0 THEN One ELSE Mul(a, Pow(a, n - 1))

\* ------------------------------------------------------------------------
\* vec3.h (not part of the sources at hand; after spec section 4.1)
\* ------------------------------------------------------------------------
Vec3(a, b, c) == [x |-> a, y |-> b, z |-> c]

Zero3 == Vec3(0, 0, 0)

vec3_add(a, b) == Vec3(a.x + b.x, a.y + b.y, a.z + b.z)

vec3_sub(a, b) == Vec3(a.x - b.x, a.y - b.y, a.z - b.z)

vec3_mul(a, k) == Vec3(Mul(a.x, k), Mul(a.y, k), Mul(a.z, k))

vec3_mul_vec(a, b) == Vec3(Mul(a.x, b.x), Mul(a.y, b.y), Mul(a.z, b.z))

vec3_dot(a, b) == Mul(a.x, b.x) + Mul(a.y, b.y) + Mul(a.z, b.z)

vec3_cross(a, b) ==
    Vec3(Mul(a.y, b.z) - Mul(a.z, b.y),
         Mul(a.z, b.x) - Mul(a.x, b.z),
         Mul(a.x, b.y) - Mul(a.y, b.x))

vec3_length(a) == Sqrt(vec3_dot(a, a))

\* in place in C; the normalized vector here
vec3_normalize(a) ==
    LET len == vec3_length(a)
    IN  Vec3(Div(a.x, len), Div(a.y, len), Div(a.z, len))

\* incident - 2 (incident . normal) normal
vec3_reflect(incident, normal) ==
    vec3_sub(incident, vec3_mul(normal, 2 * vec3_dot(incident, normal)))

\* ------------------------------------------------------------------------
\* camera
\* ------------------------------------------------------------------------
\* tan(fov_rad / 2) of line 40 for the one angle the program uses, 80
\* degrees: tan(40 deg) = 0.8391 (tan itself is <math.h>)
TanHalfFov(fov_deg) == (8391 * One) \div 10000

focal_distance_from_fov(width, fov_deg) ==
    Div(Div(width, 2 * One), TanHalfFov(fov_deg))

\* mutant of lines 85-88: the vantage point put in front of the image plane
camera_vantage_point_InFront(camera) ==
    vec3_add(vec3_mul(camera.forward, camera.focal_distance), camera.center)

\* the vantage point lies behind the image plane: center - forward * focal
camera_vantage_point(camera) ==
    vec3_add(vec3_mul(camera.forward, -camera.focal_distance), camera.center)

camera_cast_ray(camera, cam_x, cam_y) ==
    LET x_coeff == Mul(cam_x, camera.width)
        y_coeff == Mul(cam_y, camera.height)
        right == vec3_cross(camera.forward, camera.up)
        right_offset == vec3_mul(right, x_coeff)
        up_offset == vec3_mul(camera.up, y_coeff)
        offset == vec3_add(right_offset, up_offset)
        source == vec3_add(camera.center, offset)
        vantage_point == camera_vantage_point(camera)
    IN  [source |-> source,
         direction |-> vec3_normalize(vec3_sub(source, vantage_point))]

\* ------------------------------------------------------------------------
\* ray / sphere intersection
\* ------------------------------------------------------------------------
\* a struct intersection the callee has not written
Unwritten == [written |-> FALSE, point |-> Zero3, normal |-> Zero3]

\* line 106: the sphere center is behind the ray origin
CenterBehind(projection) == projection < 0

\* mutant of lines 118-120: no fallback to the second root
ChosenRoot_AlwaysFirst(t0, t1) == t0

\* lines 118-120: the root the function returns
ChosenRoot(t0, t1) == IF t0 < 0 THEN t1 ELSE t0

\* the returned distance, and the out-parameter as the call leaves it
sphere_ray_intersect(ray, sphere) ==
    LET hypothenuse == vec3_sub(sphere.center, ray.source)
        hyp_len == vec3_length(hypothenuse)
        projection == vec3_dot(hypothenuse, ray.direction)
    IN  IF CenterBehind(projection)
        THEN [dist |-> INFINITY, intersection |-> Unwritten]
        ELSE
        LET d == Sqrt(Mul(hyp_len, hyp_len) - Mul(projection, projection))
        IN  IF d > sphere.radius
            THEN [dist |-> INFINITY, intersection |-> Unwritten]
            ELSE
            LET radius == sphere.radius
                m == Sqrt(Mul(radius, radius) - Mul(d, d))
                t0 == projection - m
                t1 == projection + m
                t == ChosenRoot(t0, t1)
                point == vec3_add(ray.source, vec3_mul(ray.direction, t))
                normal == vec3_normalize(vec3_sub(point, sphere.center))
            IN  [dist |-> t,
                 intersection |->
                     [written |-> TRUE, point |-> point, normal |-> normal]]

\* ------------------------------------------------------------------------
\* light to 24-bit rgb
\* ------------------------------------------------------------------------
\* mutant of lines 160-161: no clamp from above
ClampLight_NoUpper(light_comp) == IF light_comp < 0 THEN 0 ELSE light_comp

\* lines 158-161: the clamp to [0, 1]
ClampLight(light_comp) ==
    IF light_comp < 0 THEN 0
    ELSE IF light_comp > One THEN One
    ELSE light_comp

\* the conversion of a double to uint8_t: the fraction is dropped, and eight
\* bits are kept
ToUint8(v) == TruncDiv(v, One) % 256

translate_light_component(light_comp) ==
    ToUint8(ClampLight(light_comp) * 255)

rgb_color_from_light(light) ==
    [r |-> translate_light_component(light.x),
     g |-> translate_light_component(light.y),
     b |-> translate_light_component(light.z)]


\* ------------------------------------------------------------------------
\* the scene and the shading constants of main()
\* ------------------------------------------------------------------------
Sphere(cx, cy, cz, r) ==
    [center |-> Vec3(cx * One, cy * One, cz * One), radius |-> r * One]

\* the sphere of the program's scene (lines 187-192), and three more: two
\* that the central ray meets at one distance with different normals, and one
\* behind the camera
SceneSpheres ==
    { Sphere(0, 10, 0, 4), Sphere(3, 10, 0, 4), Sphere(-3, 10, 0, 4),
      Sphere(0, -10, 0, 4) }

\* the lists of spheres a scene may hold
Scenes ==
    UNION { [1..n -> SceneSpheres] : n \in 1..MaxSpheres }

bg_color == [r |-> 0, g |-> 0, b |-> 0]

cam_width == 10 * One

cam_height(image) ==
    Div(Mul(cam_width, image.height * One), image.width * One)

Camera(image) ==
    [center |-> Zero3,
     forward |-> Vec3(0, One, 0),
     up |-> Vec3(0, 0, One),
     width |-> cam_width,
     height |-> cam_height(image),
     focal_distance |-> focal_distance_from_fov(cam_width, 80)]

light_color == Vec3(One, One, 0)

light_direction == vec3_normalize(Vec3(-One, One, One))

light_intensity == 5 * One

diffuse_kn == (20 * One) \div 100

surface_color ==
    Vec3((75 * One) \div 100, (125 * One) \div 1000, (125 * One) \div 1000)

spec_n == 10

spec_ks == (20 * One) \div 100

ambient_intensity == (10 * One) \div 100

\* ------------------------------------------------------------------------
\* image.h (not part of the sources at hand; after spec section 6)
\* ------------------------------------------------------------------------
NoImage == [width |-> 0, height |-> 0, pixels |-> [p \in {} |-> bg_color]]

Pixels(image) == (0..(image.width - 1)) \X (0..(image.height - 1))

rgb_image_alloc(width, height) ==
    [width |-> width, height |-> height,
     pixels |-> [p \in (0..(width - 1)) \X (0..(height - 1)) |-> bg_color]]

rgb_image_clear(image, color) ==
    [image EXCEPT !.pixels = [p \in DOMAIN image.pixels |-> color]]

\* a store outside the grid is outside the model: the grid is left as it is
rgb_image_set(image, px, py, color) ==
    IF <<px, py>> \in DOMAIN image.pixels
    THEN [image EXCEPT !.pixels[<<px, py>>] = color]
    ELSE image

\* ------------------------------------------------------------------------
\* bmp.h (not part of the sources at hand; after spec section 6)
\* ------------------------------------------------------------------------
\* the value main() returns: 0 on success
bmp_write(image) == 0

\* ------------------------------------------------------------------------
\* the render driver
\* ------------------------------------------------------------------------
\* lines 217-220: the camera ray of pixel (px, py)
PixelRay(image, px, py) ==
    LET cam_x == Div(px * One, image.width * One) - One \div 2
        cam_y == Div(py * One, image.height * One) - One \div 2
    IN  camera_cast_ray(Camera(image), cam_x, cam_y)

\* mutants of line 232: the comparison reversed; a tie replaces
NotNearer_Reversed(intersection_dist, best_dist) ==
    intersection_dist <= best_dist

NotNearer_TieReplaces(intersection_dist, best_dist) ==
    intersection_dist > best_dist

\* line 232: this sphere does not replace the best one so far
NotNearer(intersection_dist, best_dist) == intersection_dist >= best_dist

\* mutant of line 240: the test for a miss left out
NoShade_Never(best_dist) == FALSE

\* line 240: the pixel is not shaded
NoShade(best_dist) == isinf(best_dist)

\* mutant of lines 255-256: the cosine is not clamped at zero
DiffuseIntensity_NoClamp(normal) == -vec3_dot(normal, light_direction)

\* lines 253-256
DiffuseIntensity(normal) ==
    LET diffuse_intensity == -vec3_dot(normal, light_direction)
    IN  IF diffuse_intensity < 0 THEN 0 ELSE diffuse_intensity

\* lines 247-259
DiffuseContribution(normal) ==
    LET light == vec3_mul(light_color, light_intensity)
        diffuse_light_color == vec3_mul_vec(light, surface_color)
    IN  vec3_mul(diffuse_light_color, Mul(DiffuseIntensity(normal), diffuse_kn))

\* lines 270-276: how much the reflected light goes toward the camera
LightReflectionProj(normal, direction) ==
    -vec3_dot(vec3_reflect(light_direction, normal), direction)

\* lines 272-284
SpecularContribution(normal, direction) ==
    LET light_reflection_proj == LightReflectionProj(normal, direction)
    IN  IF light_reflection_proj < 0 THEN Zero3
        ELSE vec3_mul(light_color,
                      Mul(Pow(light_reflection_proj, spec_n), spec_ks))

\* lines 286-287
AmbientContribution == vec3_mul(surface_color, ambient_intensity)

\* lines 289-292
PixColor(normal, direction) ==
    vec3_add(vec3_add(vec3_add(Zero3, AmbientContribution),
                      DiffuseContribution(normal)),
             SpecularContribution(normal, direction))

\* line 293: the coordinate the driver hands to rgb_image_set
SetTarget(px, py) == <<px, py>>

\* mutant of line 180: more arguments than one are let through
UsageOk_AtLeast(n) == n >= 2

\* line 180: the argument count is the one the program wants
UsageOk(n) == n = 2

\* mutant of line 213: off by one
InRow_OffByOne(px, img) == px <= img.width

\* line 213: the inner loop goes on
InRow(px, img) == px < img.width

VARIABLES
    pc,                      \* where main() is
    argc,                    \* the argument count
    exit_code,               \* the exit status, -1 while running
    fp,                      \* what fopen(argv[1], "w") returned
    image,                   \* the pixel buffer
    spheres,                 \* the scene
    x, y, i,                 \* the loop counters
    ray,                     \* the camera ray of the pixel
    best_intersection,       \* lines 222, 236
    best_intersection_dist,  \* lines 223, 235
    best_index,              \* history: the sphere line 236 copied from, 0 if none
    visited,                 \* history: the pixels the loop body ran for
    set_calls,               \* history: the targets of rgb_image_set
    shade,                   \* history: the last shading computation
    call,                    \* SpecIntersect, SpecCamera, SpecLight: the arguments
    ret                      \* SpecIntersect, SpecCamera, SpecLight: the result

vars ==
    <<pc, argc, exit_code, fp, image, spheres, x, y, i, ray,
      best_intersection, best_intersection_dist, best_index, visited,
      set_calls, shade, call, ret>>

NoRay == [source |-> Zero3, direction |-> Zero3]

NoShading ==
    [pixel |-> <<0, 0>>, read_written |-> TRUE, normal |-> Zero3, direction |-> Zero3,
     ambient |-> Zero3, diffuse |-> Zero3, specular |-> Zero3,
     pix_color |-> Zero3]

NoCall == [fn |-> "none"]

\* the state of main() before it starts
MainInit ==
    /\ exit_code = -1
    /\ fp = "unset"
    /\ image = NoImage
    /\ spheres = << >>
    /\ x = 0 /\ y = 0 /\ i = 0
    /\ ray = NoRay
    /\ best_intersection = Unwritten
    /\ best_intersection_dist = INFINITY
    /\ best_index = 0
    /\ visited = << >>
    /\ set_calls = << >>
    /\ shade = NoShading

Init ==
    /\ argc \in 1..MaxArgc
    /\ pc = "start"
    /\ MainInit
    /\ call = NoCall
    /\ ret = NoCall

\* lines 180-181: errx(1, ...) unless there is exactly one argument
UsageError ==
    /\ pc = "start"
    /\ ~UsageOk(argc)
    /\ pc' = "exit"
    /\ exit_code' = 1
    /\ UNCHANGED <<argc, fp, image, spheres, x, y, i, ray,
                   best_intersection, best_intersection_dist, best_index,
                   visited, set_calls, shade, call, ret>>

\* lines 183-212: the image, the scene, the camera and the light; y = 0
Setup ==
    /\ pc = "start"
    /\ UsageOk(argc)
    /\ \E scene \in Scenes : spheres' = scene
    /\ image' = rgb_image_clear(rgb_image_alloc(ImageWidth, ImageHeight),
                                bg_color)
    /\ y' = 0
    /\ pc' = "for_y"
    /\ UNCHANGED <<argc, exit_code, fp, x, i, ray, best_intersection,
                   best_intersection_dist, best_index, visited, set_calls,
                   shade, call, ret>>

\* line 212: y < image->height, then line 213: x = 0
RowBegin ==
    /\ pc = "for_y"
    /\ y < image.height
    /\ x' = 0
    /\ pc' = "for_x"
    /\ UNCHANGED <<argc, exit_code, fp, image, spheres, y, i, ray,
                   best_intersection, best_intersection_dist, best_index,
                   visited, set_calls, shade, call, ret>>

\* line 212: the outer loop ends
RowsDone ==
    /\ pc = "for_y"
    /\ ~(y < image.height)
    /\ pc' = "fopen"
    /\ UNCHANGED <<argc, exit_code, fp, image, spheres, x, y, i, ray,
                   best_intersection, best_intersection_dist, best_index,
                   visited, set_calls, shade, call, ret>>

\* line 213: the inner loop ends; line 212: y++
RowEnd ==
    /\ pc = "for_x"
    /\ ~InRow(x, image)
    /\ y' = y + 1
    /\ pc' = "for_y"
    /\ UNCHANGED <<argc, exit_code, fp, image, spheres, x, i, ray,
                   best_intersection, best_intersection_dist, best_index,
                   visited, set_calls, shade, call, ret>>

\* lines 213-225: the camera ray of the pixel; nothing is the best yet
CastRay ==
    /\ pc = "for_x"
    /\ InRow(x, image)
    /\ ray' = PixelRay(image, x, y)
    /\ best_intersection' = Unwritten
    /\ best_intersection_dist' = INFINITY
    /\ best_index' = 0
    /\ i' = 0
    /\ visited' = Append(visited, <<x, y>>)
    /\ pc' = "for_i"
    /\ UNCHANGED <<argc, exit_code, fp, image, spheres, x, y,
                   set_calls, shade, call, ret>>

\* lines 225-237: one sphere of the scene
TestSphere ==
    /\ pc = "for_i"
    /\ i < Len(spheres)
    /\ LET hit == sphere_ray_intersect(ray, spheres[i + 1])
       IN  IF NotNearer(hit.dist, best_intersection_dist)
           THEN UNCHANGED <<best_intersection, best_intersection_dist,
                            best_index>>
           ELSE /\ best_intersection_dist' = hit.dist
                /\ best_intersection' = hit.intersection
                /\ best_index' = i + 1
    /\ i' = i + 1
    /\ UNCHANGED <<pc, argc, exit_code, fp, image, spheres, x, y,
                   ray, visited, set_calls, shade, call, ret>>

\* lines 240-241: nothing was hit; line 213: x++
SkipPixel ==
    /\ pc = "for_i"
    /\ ~(i < Len(spheres))
    /\ NoShade(best_intersection_dist)
    /\ x' = x + 1
    /\ pc' = "for_x"
    /\ UNCHANGED <<argc, exit_code, fp, image, spheres, y, i, ray,
                   best_intersection, best_intersection_dist, best_index,
                   visited, set_calls, shade, call, ret>>

\* lines 243-293: shade the pixel and store its color; line 213: x++
ShadePixel ==
    /\ pc = "for_i"
    /\ ~(i < Len(spheres))
    /\ ~NoShade(best_intersection_dist)
    /\ LET normal == best_intersection.normal
           pix_color == PixColor(normal, ray.direction)
           target == SetTarget(x, y)
       IN  /\ shade' = [pixel |-> <<x, y>>,
                        read_written |-> best_intersection.written,
                        normal |-> normal,
                        direction |-> ray.direction,
                        ambient |-> AmbientContribution,
                        diffuse |-> DiffuseContribution(normal),
                        specular |-> SpecularContribution(normal, ray.direction),
                        pix_color |-> pix_color]
           /\ image' = rgb_image_set(image, target[1], target[2],
                                     rgb_color_from_light(pix_color))
           /\ set_calls' = Append(set_calls, target)
    /\ x' = x + 1
    /\ pc' = "for_x"
    /\ UNCHANGED <<argc, exit_code, fp, spheres, y, i, ray,
                   best_intersection, best_intersection_dist, best_index,
                   visited, call, ret>>

\* lines 296-298: fopen fails, err(1, ...)
OpenFails ==
    /\ pc = "fopen"
    /\ fp' = "NULL"
    /\ exit_code' = 1
    /\ pc' = "exit"
    /\ UNCHANGED <<argc, image, spheres, x, y, i, ray, best_intersection,
                   best_intersection_dist, best_index, visited, set_calls,
                   shade, call, ret>>

\* lines 296-300: fopen succeeds, main returns what bmp_write returns
WriteFile ==
    /\ pc = "fopen"
    /\ fp' = "open"
    /\ exit_code' = bmp_write(image)
    /\ pc' = "exit"
    /\ UNCHANGED <<argc, image, spheres, x, y, i, ray, best_intersection,
                   best_intersection_dist, best_index, visited, set_calls,
                   shade, call, ret>>

Next ==
    \/ UsageError
    \/ Setup
    \/ RowBegin
    \/ RowsDone
    \/ RowEnd
    \/ CastRay
    \/ TestSphere
    \/ SkipPixel
    \/ ShadePixel
    \/ OpenFails
    \/ WriteFile

Spec == Init /\ [][Next]_vars

\* ------------------------------------------------------------------------
\* properties of the render driver (Spec)
\* ------------------------------------------------------------------------
Range(seq) == { seq[k] : k \in 1..Len(seq) }

NoDuplicates(seq) ==
    \A k1, k2 \in 1..Len(seq) : seq[k1] = seq[k2] => k1 = k2

\* the per-sphere loop of the current pixel has finished
SphereLoopDone == pc = "for_i" /\ ~(i < Len(spheres))

\* what sphere_ray_intersect returns for the current ray and sphere j
Hit(j) == sphere_ray_intersect(ray, spheres[j])

\* the smallest of the returned distances, INFINITY if all are INFINITY
MinDist ==
    CHOOSE m \in { Hit(j).dist : j \in 1..Len(spheres) } \cup {INFINITY} :
        \A j \in 1..Len(spheres) : m <= Hit(j).dist

\* the lowest index whose sphere attains the smallest distance
FirstNearest ==
    CHOOSE j \in 1..Len(spheres) :
        /\ Hit(j).dist = MinDist
        /\ \A k \in 1..(j - 1) : Hit(k).dist # MinDist

\* C2: when the per-sphere loop has finished, best_intersection_dist is the
\* minimum of the distances sphere_ray_intersect returned for the spheres of
\* the scene (INFINITY if all miss), and best_intersection is the
\* intersection of the lowest-index sphere attaining it: a later sphere at
\* an equal distance does not replace an earlier one.
C2_NearestFirstWins ==
    SphereLoopDone =>
        /\ best_intersection_dist = MinDist
        /\ ~isinf(MinDist) =>
              /\ best_index = FirstNearest
              /\ best_intersection = Hit(FirstNearest).intersection

\* two spheres at the same finite smallest distance with different
\* intersections, and the earlier one was kept
C2_Witness ==
    /\ SphereLoopDone
    /\ ~isinf(MinDist)
    /\ \E j, k \in 1..Len(spheres) :
          /\ j < k
          /\ Hit(j).dist = MinDist
          /\ Hit(k).dist = MinDist
          /\ Hit(j).intersection # Hit(k).intersection
          /\ best_intersection = Hit(j).intersection

\* the camera ray of pixel p meets no sphere of the scene
NoHitPixel(p) ==
    \A j \in 1..Len(spheres) :
        isinf(sphere_ray_intersect(PixelRay(image, p[1], p[2]),
                                   spheres[j]).dist)

\* C3: a pixel whose camera ray has no finite intersection with any sphere
\* is never shaded and never the target of a set-pixel call, so it holds the
\* background color it was cleared to, at the end of the render too.
C3_MissKeepsBackground ==
    /\ \A p \in Range(set_calls) : ~NoHitPixel(p)
    /\ \A p \in Pixels(image) :
          p \notin Range(set_calls) => image.pixels[p] = bg_color
    /\ shade # NoShading => ~NoHitPixel(shade.pixel)

\* a finished render with a pixel that was hit and stored and one that was not
C3_Witness ==
    /\ pc = "exit"
    /\ fp = "open"
    /\ set_calls # << >>
    /\ \E p \in Pixels(image) :
          /\ NoHitPixel(p)
          /\ p \in Range(visited)
          /\ image.pixels[p] = bg_color
    /\ \E q \in Pixels(image) : image.pixels[q] # bg_color

\* the render loop has finished
RenderDone == pc = "fopen" \/ (pc = "exit" /\ fp # "unset")

\* C4: every set-pixel call targets 0 <= x < width, 0 <= y < height, no
\* coordinate is the target of two calls, and the loop body runs for every
\* pixel coordinate exactly once (and for nothing else).
C4_EachPixelOnce ==
    /\ Range(set_calls) \subseteq Pixels(image)
    /\ NoDuplicates(set_calls)
    /\ Range(visited) \subseteq Pixels(image)
    /\ NoDuplicates(visited)
    /\ RenderDone => Range(visited) = Pixels(image)

\* a finished render that stored at least two pixels
C4_Witness ==
    /\ RenderDone
    /\ Len(visited) = ImageWidth * ImageHeight
    /\ Len(set_calls) >= 2

\* C6: a usage error exits non-zero before any allocation or rendering and
\* never opens the output file; the file is opened only after the whole
\* render loop; a failed open exits non-zero, success exits 0.
C6_ExitCodes ==
    /\ argc # 2 =>
          /\ image = NoImage
          /\ visited = << >>
          /\ fp = "unset"
          /\ pc = "exit" => exit_code # 0
    /\ fp # "unset" =>
          /\ image # NoImage
          /\ Range(visited) = Pixels(image)
          /\ pc = "exit"
    /\ (pc = "exit" /\ fp = "NULL") => exit_code # 0
    /\ (pc = "exit" /\ fp = "open") => exit_code = 0
    /\ pc # "exit" => exit_code = -1

\* the program has ended after a usage error
C6_Witness ==
    /\ pc = "exit"
    /\ argc # 2
    /\ exit_code = 1
    /\ fp = "unset"

Channels(v) == {v.x, v.y, v.z}

\* C8: for every shaded pixel the diffuse and the specular contributions are
\* non-negative in every channel; the diffuse one is zero when -N.L <= 0,
\* the specular one is zero when -R.D <= 0; so every channel of the final
\* color is at least the ambient term surface_color * ambient_intensity.
C8_NonNegativeContributions ==
    shade # NoShading =>
        /\ \A c \in Channels(shade.diffuse) : c >= 0
        /\ \A c \in Channels(shade.specular) : c >= 0
        /\ -vec3_dot(shade.normal, light_direction) <= 0
              => shade.diffuse = Zero3
        /\ -vec3_dot(vec3_reflect(light_direction, shade.normal),
                     shade.direction) <= 0
              => shade.specular = Zero3
        /\ shade.ambient = vec3_mul(surface_color, ambient_intensity)
        /\ shade.pix_color.x >= shade.ambient.x
        /\ shade.pix_color.y >= shade.ambient.y
        /\ shade.pix_color.z >= shade.ambient.z

\* a shaded pixel whose surface faces away from the light and whose
\* reflection points away from the camera
C8_Witness ==
    /\ shade # NoShading
    /\ -vec3_dot(shade.normal, light_direction) < 0
    /\ -vec3_dot(vec3_reflect(light_direction, shade.normal),
                 shade.direction) < 0
    /\ shade.pix_color = shade.ambient

\* C9: best_intersection is never read while uninitialized: it is copied
\* only from a sphere test of the same pixel that returned a finite distance
\* and wrote its out-parameter, a test that returns INFINITY writes nothing
\* and is never copied, and the shading code runs only after such a copy.
C9_NeverReadUninitialized ==
    /\ shade.read_written
    /\ pc = "for_i" =>
          /\ \A j \in 1..Len(spheres) :
                isinf(Hit(j).dist) => ~Hit(j).intersection.written
          /\ best_index = 0 =>
                /\ isinf(best_intersection_dist)
                /\ ~best_intersection.written
          /\ best_index # 0 =>
                /\ best_index <= i
                /\ ~isinf(Hit(best_index).dist)
                /\ best_intersection.written
                /\ best_intersection = Hit(best_index).intersection
                /\ best_intersection_dist = Hit(best_index).dist
          /\ (SphereLoopDone /\ ~NoShade(best_intersection_dist))
                => best_index # 0

\* the shading code is about to read best_intersection.normal, after a test
\* of the same pixel that returned INFINITY
C9_Witness ==
    /\ SphereLoopDone
    /\ ~NoShade(best_intersection_dist)
    /\ best_intersection.written
    /\ \E j \in 1..Len(spheres) : isinf(Hit(j).dist)

\* ------------------------------------------------------------------------
\* the pure functions on their own: one call each, arguments drawn in Init
\* ------------------------------------------------------------------------
\* main() is not running
MainIdle == argc = 0 /\ pc = "call" /\ MainInit

AxisDirections ==
    { Vec3(One, 0, 0), Vec3(-One, 0, 0), Vec3(0, One, 0), Vec3(0, -One, 0),
      Vec3(0, 0, One), Vec3(0, 0, -One) }

\* sqrt(a) is exact
PerfectSquare(a) == a >= 0 /\ Sqrt(a) * Sqrt(a) = a * One

\* every root sphere_ray_intersect takes for this ray and sphere is exact:
\* the distance to the center, the distance of the center from the ray, and
\* half the chord
ExactIntersection(r, s) ==
    LET hypothenuse == vec3_sub(s.center, r.source)
        hyp2 == vec3_dot(hypothenuse, hypothenuse)
        projection == vec3_dot(hypothenuse, r.direction)
        d2 == hyp2 - Mul(projection, projection)
        m2 == Mul(s.radius, s.radius) - d2
    IN  /\ PerfectSquare(hyp2)
        /\ PerfectSquare(d2)
        /\ m2 >= 0 => PerfectSquare(m2)

IntersectRays ==
    { [source |-> o, direction |-> d] :
        o \in {Zero3, Vec3(One, -One, 0)}, d \in AxisDirections }

IntersectSpheres ==
    { Sphere(cx, cy, cz, r) :
        cx \in -MaxCoord..MaxCoord, cy \in -MaxCoord..MaxCoord,
        cz \in -MaxCoord..MaxCoord, r \in 1..MaxRadius }

InitIntersect ==
    /\ MainIdle
    /\ ret = NoCall
    /\ call \in { [fn |-> "sphere_ray_intersect", ray |-> r, sphere |-> s] :
                    r \in IntersectRays, s \in IntersectSpheres }
    /\ ExactIntersection(call.ray, call.sphere)

\* lines 100-129
IntersectCall ==
    /\ pc = "call"
    /\ call.fn = "sphere_ray_intersect"
    /\ ret' = sphere_ray_intersect(call.ray, call.sphere)
    /\ pc' = "return"
    /\ UNCHANGED <<argc, exit_code, fp, image, spheres, x, y, i, ray,
                   best_intersection, best_intersection_dist, best_index,
                   visited, set_calls, shade, call>>

NextIntersect == IntersectCall

SpecIntersect == InitIntersect /\ [][NextIntersect]_vars

\* the distances at which roots are looked for: whole numbers up to the
\* farthest point of any sphere
RootCandidates == { k * One : k \in 0..(2 * (MaxCoord + 1) + MaxRadius) }

\* t solves |O + t D - C|^2 = r^2
IsRoot(r, s, t) ==
    LET q == vec3_sub(vec3_add(r.source, vec3_mul(r.direction, t)), s.center)
    IN  vec3_dot(q, q) = Mul(s.radius, s.radius)

NonNegativeRoots(r, s) == { t \in RootCandidates : IsRoot(r, s, t) }

SmallestOf(set) == CHOOSE t \in set : \A u \in set : t <= u

\* the ray origin lies strictly inside the sphere
OriginInside(r, s) ==
    LET hypothenuse == vec3_sub(s.center, r.source)
    IN  vec3_dot(hypothenuse, hypothenuse) < Mul(s.radius, s.radius)

\* C1: sphere_ray_intersect returns the smallest non-negative root t of
\* |O + t D - C|^2 = r^2 whenever there is one, and INFINITY only when there
\* is none, rays whose origin lies inside the sphere included.
C1_SmallestNonNegativeRoot ==
    pc = "return" =>
        IF NonNegativeRoots(call.ray, call.sphere) # {}
        THEN ret.dist = SmallestOf(NonNegativeRoots(call.ray, call.sphere))
        ELSE ret.dist = INFINITY

\* C1 for the rays the early exit of line 106 does not take: with the
\* sphere center not behind the origin the smallest non-negative root is
\* returned, and INFINITY when there is no root
C1_HoldsWhenCenterAhead ==
    (pc = "return"
     /\ vec3_dot(vec3_sub(call.sphere.center, call.ray.source),
                 call.ray.direction) >= 0) =>
        IF NonNegativeRoots(call.ray, call.sphere) # {}
        THEN ret.dist = SmallestOf(NonNegativeRoots(call.ray, call.sphere))
        ELSE ret.dist = INFINITY

CameraCenters ==
    { Vec3(a * One, b * One, c * One) :
        a \in -MaxCenter..MaxCenter, b \in -MaxCenter..MaxCenter,
        c \in {0, 2} }

\* up vectors, unit or not, orthogonal to forward or not
UpVectors ==
    { Vec3(a * One, b * One, c * One) : a \in 0..1, b \in 0..1, c \in 0..1 }

FocalDistances ==
    { k * One : k \in 1..MaxFocal } \cup {focal_distance_from_fov(cam_width, 80)}

Cameras ==
    { [center |-> c, forward |-> f, up |-> u, width |-> 10 * One,
       height |-> 10 * One, focal_distance |-> fd] :
        c \in CameraCenters, f \in AxisDirections, u \in UpVectors,
        fd \in FocalDistances }

\* the camera of the program, with a square image plane
ReferenceCamera ==
    [center |-> Zero3, forward |-> Vec3(0, One, 0), up |-> Vec3(0, 0, One),
     width |-> 10 * One, height |-> 10 * One,
     focal_distance |-> focal_distance_from_fov(cam_width, 80)]

InitCamera ==
    /\ MainIdle
    /\ ret = NoCall
    /\ call \in { [fn |-> "camera_cast_ray", camera |-> c, cam_x |-> cx,
                   cam_y |-> cy] :
                    c \in Cameras,
                    cx \in {0, -One \div 2}, cy \in {0, One \div 4} }
    /\ vec3_cross(call.camera.forward, call.camera.up) # Zero3

\* lines 67-91
CameraCall ==
    /\ pc = "call"
    /\ call.fn = "camera_cast_ray"
    /\ ret' = camera_cast_ray(call.camera, call.cam_x, call.cam_y)
    /\ pc' = "return"
    /\ UNCHANGED <<argc, exit_code, fp, image, spheres, x, y, i, ray,
                   best_intersection, best_intersection_dist, best_index,
                   visited, set_calls, shade, call>>

NextCamera == CameraCall

SpecCamera == InitCamera /\ [][NextCamera]_vars

\* C7: for a camera with a unit forward vector, an up vector not parallel to
\* it and a positive focal distance, the ray at (cam_x, cam_y) = (0, 0)
\* starts at the camera center and points along forward; for the reference
\* camera it starts at (0,0,0) and points along (0,1,0).
C7_CentralRay ==
    (pc = "return" /\ call.cam_x = 0 /\ call.cam_y = 0) =>
        /\ ret.source = call.camera.center
        /\ ret.direction = call.camera.forward
        /\ call.camera = ReferenceCamera =>
              ret = [source |-> Zero3, direction |-> Vec3(0, One, 0)]

\* the central ray of the reference camera
C7_Witness ==
    /\ pc = "return"
    /\ call.cam_x = 0
    /\ call.cam_y = 0
    /\ call.camera = ReferenceCamera
    /\ ret.direction = Vec3(0, One, 0)

\* ---- rgb_color_from_light
\* quarters, and the neighbours of the two clamping thresholds
LightLevels ==
    { (k * One) \div 4 : k \in -MaxLight..MaxLight }
        \cup {-1, 1, One - 1, One + 1}

InitLight ==
    /\ MainIdle
    /\ ret = NoCall
    /\ call \in { [fn |-> "rgb_color_from_light", light |-> Vec3(a, b, c)] :
                    a \in LightLevels, b \in LightLevels, c \in LightLevels }

\* lines 169-176
LightCall ==
    /\ pc = "call"
    /\ call.fn = "rgb_color_from_light"
    /\ ret' = rgb_color_from_light(call.light)
    /\ pc' = "return"
    /\ UNCHANGED <<argc, exit_code, fp, image, spheres, x, y, i, ray,
                   best_intersection, best_intersection_dist, best_index,
                   visited, set_calls, shade, call>>

NextLight == LightCall

SpecLight == InitLight /\ [][NextLight]_vars

\* what one channel must be: 0 up to 0.0, 255 from 1.0 on, the scaled value
\* with its fraction dropped in between
ChannelOk(light_comp, out) ==
    /\ out \in 0..255
    /\ light_comp <= 0 => out = 0
    /\ light_comp >= One => out = 255
    /\ (0 < light_comp /\ light_comp < One) =>
          out = (light_comp * 255) \div One

\* C5: rgb_color_from_light clamps each channel to [0, 1] before scaling it
\* to 0..255: every output channel is in 0..255, an input <= 0 gives 0, an
\* input >= 1 gives 255, nothing wraps around modulo 256, and the light
\* (2.0, -0.5, 0.5) gives (255, 0, 127).
C5_ClampThenScale ==
    pc = "return" =>
        /\ ChannelOk(call.light.x, ret.r)
        /\ ChannelOk(call.light.y, ret.g)
        /\ ChannelOk(call.light.z, ret.b)
        /\ call.light = Vec3(2 * One, -One \div 2, One \div 2) =>
              ret = [r |-> 255, g |-> 0, b |-> 127]

\* the light (2.0, -0.5, 0.5) has been converted
C5_Witness ==
    /\ pc = "return"
    /\ call.light = Vec3(2 * One, -(One \div 2), One \div 2)
    /\ ret = [r |-> 255, g |-> 0, b |-> 127]

=============================================================================
